---- MODULE Spec2Model ----
(***************************************************************************)
(* A model of the data-access layer of src/src/data_io_manager.py and      *)
(* src/src/db_connections.py: the PostgreSQL connection manager            *)
(* (PostgreSQLDB), the relational handler (PostgresDataHandler) and the    *)
(* local file handler (LocalDataHandler).                                  *)
(*                                                                         *)
(* The Python classes name their initialisers `_init_` (one underscore on  *)
(* each side), so constructing an object runs object.__init__ and sets no  *)
(* attribute; `_init_` runs only when a caller invokes it by name.  The    *)
(* model keeps that: an object starts with its attributes absent.          *)
(*                                                                         *)
(* src/src/db_connections.py:9 calls load_dotenv() without importing it;   *)
(* the model describes the classes once the module has been loaded (with   *)
(* load_dotenv resolvable), since otherwise no operation exists at all.    *)
(*                                                                         *)
(* The PostgreSQL server, the SQLAlchemy engine, pandas and the file       *)
(* system are the environment: their outcomes that the code cannot decide  *)
(* (server reachable or not, engine creation succeeding or not, a writer   *)
(* failing half way) are nondeterministic choices of the actions.          *)
(***************************************************************************)
EXTENDS Integers, Sequences, FiniteSets, TLC

VARIABLES
    mgr,      \* the PostgreSQLDB objects: "own" (the caller's), "handler" (PostgresDataHandler.postgres)
    h,        \* the PostgresDataHandler object's attributes
    tables,   \* the database: table name -> absent or [cols, rows]
    last,     \* the most recent call on the database side and what the caller saw
    prev,     \* the call before it
    files,    \* the file system: set of [path, content]
    dirs,     \* the directories that exist
    now,      \* the wall clock, in ticks
    lastL     \* the most recent LocalDataHandler call and what the caller saw

vars == <<mgr, h, tables, last, prev, files, dirs, now, lastL>>
dbVars == <<mgr, h, tables, last, prev>>
fsVars == <<files, dirs, now, lastL>>

----------------------------------------------------------------------------
(* Bounds *)

MaxRows == 2          \* rows a table may hold through the caller's own INSERTs
MaxTime == 3          \* the clock stops after this many ticks
TicksPerSecond == 2   \* clock readings within one second
MaxFiles == 2         \* files the file system may hold

----------------------------------------------------------------------------
(* Python values *)

None == [kind |-> "None"]

NoExc == [type |-> "none"]

Exc(type, msg, target, cause) ==
    [type |-> type, msg |-> msg, target |-> target, cause |-> cause]

Return(v, printed) ==
    [kind |-> "return", value |-> v, exc |-> NoExc, stdout |-> printed]

Raise(e, printed) ==
    [kind |-> "raise", value |-> None, exc |-> e, stdout |-> printed]

(* pandas DataFrames the caller may pass: ordered columns, a dtype per      *)
(* column, rows of cell values (written as strings).                        *)
DataFrame(columns, dtypes, rows) ==
    [kind |-> "DataFrame", columns |-> columns, dtypes |-> dtypes, rows |-> rows]

Frames ==
    { DataFrame(<<"id", "name">>, <<"int64", "object">>, << <<"1", "a">>, <<"2", "b">> >>),
      DataFrame(<<"id">>, <<"object">>, << <<"x">> >>),
      DataFrame(<<"flag", "score">>, <<"bool", "float32">>, << <<"True", "0.5">> >>) }

TableNames == {"t"}

Absent == [exists |-> FALSE, cols |-> <<>>, rows |-> <<>>]

Table(cols, rows) == [exists |-> TRUE, cols |-> cols, rows |-> rows]

----------------------------------------------------------------------------
(* PostgresDataHandler._get_postgres_type *)

_get_postgres_type(dtype) ==
    CASE dtype = "object"         -> "TEXT"
      [] dtype = "int64"          -> "BIGINT"
      [] dtype = "int32"          -> "INT"
      [] dtype = "float64"        -> "DOUBLE PRECISION"
      [] dtype = "float32"        -> "FLOAT"
      [] dtype = "datetime64[ns]" -> "TIMESTAMP"
      [] OTHER                    -> "TEXT"

(* write, lines 159-160: the (column, type) pairs of the CREATE TABLE text, *)
(* in the DataFrame's column order.                                         *)
columns_info(data) ==
    [i \in 1..Len(data.columns) |->
        <<data.columns[i], _get_postgres_type(data.dtypes[i])>>]

----------------------------------------------------------------------------
(* SQL statements.  `wrapped` tells a sqlalchemy TextClause from a plain    *)
(* str: _create_table passes text(...) and execute_query applies text()     *)
(* again, and text() of a TextClause raises TypeError (its constructor runs *)
(* a regular-expression substitution over its argument).                    *)

CreateTableQuery(table_name, cols) ==
    [sql |-> "CREATE TABLE IF NOT EXISTS", table |-> table_name, cols |-> cols, row |-> <<>>]

SelectQuery(table_name) ==
    [sql |-> "SELECT * FROM", table |-> table_name, cols |-> <<>>, row |-> <<>>]

InsertQuery(table_name, row) ==
    [sql |-> "INSERT INTO", table |-> table_name, cols |-> <<>>, row |-> row]

Str(q) == [wrapped |-> FALSE, q |-> q]

text(query) == [wrapped |-> TRUE, q |-> query]

Result(columns, rows) == [kind |-> "Result", columns |-> columns, rows |-> rows]

ColNames(cols) == [i \in 1..Len(cols) |-> cols[i][1]]

(* What the server does with one statement inside a transaction.            *)
ExecSQL(tbls, q) ==
    LET tb == tbls[q.table] IN
    CASE q.sql = "CREATE TABLE IF NOT EXISTS" ->
            IF tb.exists
            THEN [ok |-> TRUE, tables |-> tbls, result |-> Result(<<>>, <<>>)]
            ELSE [ok |-> TRUE,
                  tables |-> [tbls EXCEPT ![q.table] = Table(q.cols, <<>>)],
                  result |-> Result(<<>>, <<>>)]
      [] q.sql = "SELECT * FROM" ->
            IF tb.exists
            THEN [ok |-> TRUE, tables |-> tbls, result |-> Result(ColNames(tb.cols), tb.rows)]
            ELSE [ok |-> FALSE, tables |-> tbls, result |-> Result(<<>>, <<>>)]
      [] OTHER ->
            IF tb.exists /\ Len(q.row) = Len(tb.cols) /\ Len(tb.rows) < MaxRows
            THEN [ok |-> TRUE,
                  tables |-> [tbls EXCEPT ![q.table].rows = Append(@, q.row)],
                  result |-> Result(<<>>, <<>>)]
            ELSE [ok |-> FALSE, tables |-> tbls, result |-> Result(<<>>, <<>>)]

----------------------------------------------------------------------------
(* PostgreSQLDB (ConnectionManager).  A manager object is                   *)
(*   attrs   : whether _init_ has run, i.e. host..password, engine and      *)
(*             Session exist as attributes;                                 *)
(*   engine  : "None" or "Engine";  Session : "None" or "sessionmaker";     *)
(*   pooled  : connections the engine's pool holds open.                    *)

NoObject == [alive |-> FALSE, attrs |-> FALSE, engine |-> "None", Session |-> "None", pooled |-> 0]

(* PostgreSQLDB(): object.__init__ runs, no attribute is set.               *)
FreshPostgreSQLDB ==
    [alive |-> TRUE, attrs |-> FALSE, engine |-> "None", Session |-> "None", pooled |-> 0]

(* PostgreSQLDB._init_, called by name.                                     *)
PostgreSQLDB_init_(self) ==
    [self EXCEPT !.attrs = TRUE, !.engine = "None", !.Session = "None", !.pooled = 0]

AttributeError(name) == Exc("AttributeError", "object has no attribute", name, NoExc)

(* PostgreSQLDB.connect, the try block of lines 51-56.  engineOk:          *)
(* create_engine and sessionmaker succeed (a malformed URL or a missing     *)
(* driver makes them raise); reading self.user raises when _init_ never ran.*)
connect_try(self, engineOk) ==
    IF self.attrs /\ engineOk
    THEN [obj |-> [self EXCEPT !.engine = "Engine", !.Session = "sessionmaker", !.pooled = 0],
          stdout |-> <<"Successfully connected to: ">>]
    ELSE [obj |-> self, stdout |-> <<"Connection failed: ">>]

(* line 57: return self.engine, self.Session                                *)
connect_return(tried) ==
    IF ~tried.obj.attrs
    THEN [obj |-> tried.obj, out |-> Raise(AttributeError("engine"), tried.stdout)]
    ELSE [obj |-> tried.obj,
          out |-> Return([kind |-> "tuple", engine |-> tried.obj.engine,
                          Session |-> tried.obj.Session], tried.stdout)]

connect(self, engineOk) == connect_return(connect_try(self, engineOk))

(* PostgreSQLDB.disconnect: every exception is caught and reported. `disposed` *)
(* tells whether engine.dispose() ran.                                      *)
disconnect(self) ==
    IF ~self.attrs
    THEN [obj |-> self, disposed |-> FALSE, out |-> Return(None, <<"Disconnection failed: ">>)]
    ELSE IF self.engine # "None"
    THEN [obj |-> [self EXCEPT !.pooled = 0], disposed |-> TRUE,
          out |-> Return(None, <<"Disconnected from: ">>)]
    ELSE [obj |-> self, disposed |-> FALSE, out |-> Return(None, <<"Already disconnected.">>)]

(* The except branch of execute_query, lines 88-89: the error is reported   *)
(* and the method falls off its end, returning None.                        *)
execute_query_failed(obj, tbls) ==
    [obj |-> obj, tables |-> tbls, ran |-> FALSE, out |-> Return(None, <<"Failed: ">>)]

(* lines 84-87, on an open connection: text(query), execute, commit, return *)
execute_query_on(conn, tbls, query, r) ==
    IF query.wrapped \/ ~r.ok
    THEN execute_query_failed(conn, tbls)
    ELSE [obj |-> conn, tables |-> r.tables, ran |-> TRUE,
          out |-> Return(r.result, <<"Successfully executed.">>)]

(* PostgreSQLDB.execute_query.  up: the server accepts the connection.      *)
(* `ran` tells whether the statement reached the server and succeeded.      *)
execute_query(self, tbls, query, up) ==
    IF ~self.attrs \/ self.engine = "None" \/ ~up
    THEN execute_query_failed(self, tbls)
    ELSE execute_query_on([self EXCEPT !.pooled = 1], tbls, query, ExecSQL(tbls, query.q))

----------------------------------------------------------------------------
(* PostgresDataHandler (RelationalStorageHandler).  The handler object is   *)
(*   postgres : whether the attribute `postgres` exists (its object is      *)
(*              mgr["handler"]);                                            *)
(*   engine, session : "absent" until _init_ assigns them (line 104).       *)

FreshPostgresDataHandler == [postgres |-> FALSE, engine |-> "absent", session |-> "absent"]

(* line 104: self.engine, self.session = <what connect() gave>; the         *)
(* assignment happens only when connect() returned.                         *)
PostgresDataHandler_assign(self, c) ==
    [h   |-> IF c.out.kind = "return"
             THEN [postgres |-> TRUE, engine |-> c.out.value.engine,
                   session |-> c.out.value.Session]
             ELSE [self EXCEPT !.postgres = TRUE],
     obj |-> c.obj,
     out |-> c.out]

(* PostgresDataHandler._init_, called by name: a new PostgreSQLDB(), whose   *)
(* own _init_ has not run, then connect() on it.                            *)
PostgresDataHandler_init_(self, engineOk) ==
    PostgresDataHandler_assign(self, connect(FreshPostgreSQLDB, engineOk))

RuntimeError(msg, table_name, cause) == Exc("RuntimeError", msg, table_name, cause)

(* _create_table once execute_query has returned: it always reports success *)
_create_table_done(r) ==
    [obj |-> r.obj, tables |-> r.tables, ran |-> r.ran,
     out |-> Return(None, r.out.stdout \o <<"Table created successfully: ">>)]

(* PostgresDataHandler._create_table *)
_create_table(self, obj, tbls, table_name, cols, up) ==
    IF ~self.postgres
    THEN [obj |-> obj, tables |-> tbls, ran |-> FALSE,
          out |-> Raise(RuntimeError("Failed to create table", table_name,
                                     AttributeError("postgres")), <<>>)]
    ELSE _create_table_done(
            execute_query(obj, tbls, text(CreateTableQuery(table_name, cols)), up))

(* DataFrame.to_sql(table_name, con, if_exists='append', index=False): pandas *)
(* creates a missing table with its own column types and inserts the rows  *)
(* in one transaction; the server rejects rows that do not fit the table.   *)
PandasSqlType(dtype) ==
    CASE dtype = "object"         -> "TEXT"
      [] dtype = "int64"          -> "BIGINT"
      [] dtype = "int32"          -> "INTEGER"
      [] dtype = "float64"        -> "FLOAT(53)"
      [] dtype = "float32"        -> "REAL"
      [] dtype = "datetime64[ns]" -> "TIMESTAMP"
      [] dtype = "bool"           -> "BOOLEAN"
      [] OTHER                    -> "TEXT"

SchemaFits(data, tb) ==
    \A i \in 1..Len(data.columns) :
        \E j \in 1..Len(tb.cols) :
            /\ tb.cols[j][1] = data.columns[i]
            /\ tb.cols[j][2] \in {_get_postgres_type(data.dtypes[i]),
                                  PandasSqlType(data.dtypes[i])}

Fits(data, tb) ==
    /\ Len(tb.rows) + Len(data.rows) <= MaxRows
    /\ SchemaFits(data, tb)

Reordered(data, tb) ==
    [r \in 1..Len(data.rows) |->
        [j \in 1..Len(tb.cols) |->
            IF \E i \in 1..Len(data.columns) : data.columns[i] = tb.cols[j][1]
            THEN data.rows[r][CHOOSE i \in 1..Len(data.columns) :
                                  data.columns[i] = tb.cols[j][1]]
            ELSE "NULL"]]

to_sql_into(data, table_name, con, tbls, up, target) ==
    IF con # "Engine" \/ ~up \/ ~Fits(data, target)
    THEN [ok |-> FALSE, tables |-> tbls]
    ELSE [ok |-> TRUE,
          tables |-> [tbls EXCEPT ![table_name] =
                        Table(target.cols, target.rows \o Reordered(data, target))]]

to_sql(data, table_name, con, tbls, up) ==
    to_sql_into(data, table_name, con, tbls, up,
        IF tbls[table_name].exists
        THEN tbls[table_name]
        ELSE Table([i \in 1..Len(data.columns) |->
                       <<data.columns[i], PandasSqlType(data.dtypes[i])>>], <<>>))

WriteMsg == "Failed to write DataFrame to PostgreSQL table"

(* write, line 162 and its outcome; ct is what _create_table left, ts what  *)
(* to_sql did.                                                              *)
write_append(ct, table_name, ts) ==
    IF ts.ok
    THEN [obj |-> ct.obj, tables |-> ts.tables, createRan |-> ct.ran, appendAttempted |-> TRUE,
          out |-> Return(None, ct.out.stdout \o
                    <<"Successfully written DataFrame to PostgreSQL table: ">>)]
    ELSE [obj |-> ct.obj, tables |-> ct.tables, createRan |-> ct.ran, appendAttempted |-> TRUE,
          out |-> Raise(RuntimeError(WriteMsg, table_name,
                          Exc("DatabaseError", "to_sql", table_name, NoExc)),
                        ct.out.stdout)]

(* write, the try block with its except clause, lines 158-165; ct is what   *)
(* _create_table did.  Reading self.engine for to_sql's argument raises     *)
(* AttributeError when the attribute was never assigned.                    *)
write_try(self, ct, data, table_name, up2) ==
    IF ct.out.kind = "raise"
    THEN [obj |-> ct.obj, tables |-> ct.tables, createRan |-> ct.ran, appendAttempted |-> FALSE,
          out |-> Raise(RuntimeError(WriteMsg, table_name, ct.out.exc), ct.out.stdout)]
    ELSE IF self.engine = "absent"
    THEN [obj |-> ct.obj, tables |-> ct.tables, createRan |-> ct.ran, appendAttempted |-> FALSE,
          out |-> Raise(RuntimeError(WriteMsg, table_name, AttributeError("engine")),
                        ct.out.stdout)]
    ELSE write_append(ct, table_name, to_sql(data, table_name, self.engine, ct.tables, up2))

(* write, the finally block, lines 166-167, once disconnect() has returned. *)
write_disconnected(body, d) ==
    [obj |-> d.obj, tables |-> body.tables,
     createRan |-> body.createRan, appendAttempted |-> body.appendAttempted,
     disconnectCalled |-> TRUE, disposed |-> d.disposed,
     out |-> [body.out EXCEPT !.stdout = @ \o d.out.stdout]]

(* write, the finally block: reading self.postgres raises AttributeError    *)
(* when the attribute does not exist, and that exception replaces the one   *)
(* in flight.                                                               *)
write_finally(self, body) ==
    IF ~self.postgres
    THEN [obj |-> body.obj, tables |-> body.tables,
          createRan |-> body.createRan, appendAttempted |-> body.appendAttempted,
          disconnectCalled |-> FALSE, disposed |-> FALSE,
          out |-> Raise(Exc("AttributeError", "object has no attribute", "postgres",
                            body.out.exc), body.out.stdout)]
    ELSE write_disconnected(body, disconnect(body.obj))

(* PostgresDataHandler.write.  up1, up2: the server accepts the connection  *)
(* of the CREATE TABLE and of the append.                                   *)
write(self, obj, tbls, data, table_name, up1, up2) ==
    write_finally(self,
        write_try(self,
            _create_table(self, obj, tbls, table_name, columns_info(data), up1),
            data, table_name, up2))

ReadMsg == "Failed to read data from PostgreSQL table"

(* read, lines 182-186; r is what execute_query returned.  cursorUsable:    *)
(* the driver still serves the rows of a result whose connection            *)
(* execute_query has already closed.                                        *)
read_fetch(r, table_name, cursorUsable) ==
    IF r.out.value.kind = "None"
    THEN [obj |-> r.obj, tables |-> r.tables,
          out |-> Raise(RuntimeError(ReadMsg, table_name, AttributeError("fetchall")),
                        r.out.stdout)]
    ELSE IF ~cursorUsable
    THEN [obj |-> r.obj, tables |-> r.tables,
          out |-> Raise(RuntimeError(ReadMsg, table_name,
                          Exc("ResourceClosedError", "fetchall", table_name, NoExc)),
                        r.out.stdout)]
    ELSE [obj |-> r.obj, tables |-> r.tables,
          out |-> Return(DataFrame(r.out.value.columns,
                                   [i \in 1..Len(r.out.value.columns) |-> "inferred"],
                                   r.out.value.rows),
                         r.out.stdout)]

(* PostgresDataHandler.read *)
read(self, obj, tbls, table_name, up, cursorUsable) ==
    IF ~self.postgres
    THEN [obj |-> obj, tables |-> tbls,
          out |-> Raise(RuntimeError(ReadMsg, table_name, AttributeError("postgres")), <<>>)]
    ELSE read_fetch(execute_query(obj, tbls, Str(SelectQuery(table_name)), up),
                    table_name, cursorUsable)

----------------------------------------------------------------------------
(* The caller.  It constructs one PostgreSQLDB ("own") and one              *)
(* PostgresDataHandler and then calls their methods, one call at a time     *)
(* (the code is synchronous); the handler's manager is reachable as         *)
(* handler.postgres once that attribute exists.                             *)

MgrIds == {"own", "handler"}

NoFrame == DataFrame(<<>>, <<>>, <<>>)

Call(op, m, table_name, data, before, engineBefore, out) ==
    [op |-> op, m |-> m, table |-> table_name, data |-> data, before |-> before,
     engineBefore |-> engineBefore, out |-> out,
     createRan |-> FALSE, appendAttempted |-> FALSE,
     disconnectCalled |-> FALSE, disposed |-> FALSE]

(* What is kept of the call before the last one. *)
Summary(c) ==
    [op |-> c.op, table |-> c.table, data |-> c.data,
     existed |-> c.before.exists, returned |-> c.out.kind = "return"]

NoCall == Call("none", "own", "t", NoFrame, Absent, "None", Return(None, <<>>))

(* The statements the caller runs itself through execute_query.             *)
CallerQueries ==
    { SelectQuery(t) : t \in TableNames }
    \cup { CreateTableQuery(t, columns_info(d)) : t \in TableNames, d \in Frames }
    \cup { InsertQuery(t, d.rows[1]) : t \in TableNames, d \in Frames }

InitDB ==
    /\ mgr = [m \in MgrIds |-> IF m = "own" THEN FreshPostgreSQLDB ELSE NoObject]
    /\ h = FreshPostgresDataHandler
    /\ tables = [t \in TableNames |-> Absent]
    /\ last = NoCall
    /\ prev = Summary(NoCall)

ManagerInit(m) ==
    /\ mgr[m].alive
    /\ mgr' = [mgr EXCEPT ![m] = PostgreSQLDB_init_(mgr[m])]
    /\ last' = Call("_init_", m, "t", NoFrame, Absent, mgr[m].engine, Return(None, <<>>))
    /\ prev' = Summary(last)
    /\ UNCHANGED <<h, tables>>
    /\ UNCHANGED fsVars

Connect(m) ==
    /\ mgr[m].alive
    /\ \E engineOk \in BOOLEAN :
       \E c \in {connect(mgr[m], engineOk)} :
          /\ mgr' = [mgr EXCEPT ![m] = c.obj]
          /\ last' = Call("connect", m, "t", NoFrame, Absent, mgr[m].engine, c.out)
    /\ prev' = Summary(last)
    /\ UNCHANGED <<h, tables>>
    /\ UNCHANGED fsVars

Disconnect(m) ==
    /\ mgr[m].alive
    /\ \E d \in {disconnect(mgr[m])} :
          /\ mgr' = [mgr EXCEPT ![m] = d.obj]
          /\ last' = [Call("disconnect", m, "t", NoFrame, Absent, mgr[m].engine, d.out)
                        EXCEPT !.disconnectCalled = TRUE, !.disposed = d.disposed]
    /\ prev' = Summary(last)
    /\ UNCHANGED <<h, tables>>
    /\ UNCHANGED fsVars

ExecuteQuery(m) ==
    /\ mgr[m].alive
    /\ \E q \in CallerQueries, up \in BOOLEAN :
       \E r \in {execute_query(mgr[m], tables, Str(q), up)} :
          /\ mgr' = [mgr EXCEPT ![m] = r.obj]
          /\ tables' = r.tables
          /\ last' = Call("execute_query", m, q.table, NoFrame, tables[q.table],
                          mgr[m].engine, r.out)
    /\ prev' = Summary(last)
    /\ UNCHANGED h
    /\ UNCHANGED fsVars

HandlerInit ==
    /\ \E engineOk \in BOOLEAN :
       \E i \in {PostgresDataHandler_init_(h, engineOk)} :
          /\ h' = i.h
          /\ mgr' = [mgr EXCEPT !["handler"] = i.obj]
          /\ last' = Call("handler._init_", "handler", "t", NoFrame, Absent,
                          mgr["handler"].engine, i.out)
    /\ prev' = Summary(last)
    /\ UNCHANGED tables
    /\ UNCHANGED fsVars

HandlerWrite ==
    /\ \E data \in Frames, t \in TableNames, up1 \in BOOLEAN, up2 \in BOOLEAN :
       \E w \in {write(h, mgr["handler"], tables, data, t, up1, up2)} :
          /\ mgr' = [mgr EXCEPT !["handler"] = w.obj]
          /\ tables' = w.tables
          /\ last' = [Call("write", "handler", t, data, tables[t],
                           mgr["handler"].engine, w.out)
                        EXCEPT !.createRan = w.createRan,
                               !.appendAttempted = w.appendAttempted,
                               !.disconnectCalled = w.disconnectCalled,
                               !.disposed = w.disposed]
    /\ prev' = Summary(last)
    /\ UNCHANGED h
    /\ UNCHANGED fsVars

HandlerRead ==
    /\ \E t \in TableNames, up \in BOOLEAN, cursorUsable \in BOOLEAN :
       \E r \in {read(h, mgr["handler"], tables, t, up, cursorUsable)} :
          /\ mgr' = [mgr EXCEPT !["handler"] = r.obj]
          /\ tables' = r.tables
          /\ last' = Call("read", "handler", t, NoFrame, tables[t],
                          mgr["handler"].engine, r.out)
    /\ prev' = Summary(last)
    /\ UNCHANGED h
    /\ UNCHANGED fsVars


----------------------------------------------------------------------------
(* LocalDataHandler (FileStorageHandler).  Strings (paths, names,           *)
(* extensions) are sequences of tokens; "." and "/" are tokens of their own.*)
(* A file is [path, content]; content is the format it was serialised in,   *)
(* the DataFrame, and whether the serialisation ran to its end.             *)

Content(fmt, data, complete) == [fmt |-> fmt, data |-> data, complete |-> complete]

(* A registry that also has a writer for "xml". *)
Writers_withXml == { <<"json">>, <<"csv">>, <<"parquet">>, <<"xml">> }

(* the keys of the `writers` dict, lines 83-87 *)
Writers == { <<"json">>, <<"csv">>, <<"parquet">> }

(* the keys of the `readers` dict, lines 35-39 *)
Readers == { <<"json">>, <<"csv">>, <<"parquet">> }

(* A format string that stops at the minute, "%d-%m-%Y_%H-%M" (a minute is *)
(* taken as MaxTime + 1 ticks, so every reading falls into the same one).   *)
strftime_toMinute(clock) == ToString(clock \div (MaxTime + 1))

(* datetime.datetime.now().strftime("%d-%m-%Y_%H-%M-%S"): the clock read to *)
(* the second; what is below the second is dropped.                         *)
strftime(clock) == ToString(clock \div TicksPerSecond)

(* os.path.join(a, b) for a relative b *)
os_path_join(a, b) ==
    IF a = <<>> \/ a[Len(a)] = "/" THEN a \o b ELSE a \o <<"/">> \o b

(* LocalDataHandler._generate_file_name at clock reading `clock` *)
_generate_file_name(base_name, extension, output_dir, clock) ==
    os_path_join(output_dir, base_name \o <<"_", strftime(clock), ".">> \o extension)

(* os.makedirs(output_dir, exist_ok=True).  mk: the file system lets the    *)
(* missing directories be created.                                          *)
makedirs(ds, output_dir, mk) ==
    IF output_dir \in ds THEN [ok |-> TRUE, dirs |-> ds]
    ELSE IF mk
    THEN [ok |-> TRUE,
          dirs |-> ds \cup { SubSeq(output_dir, 1, k) : k \in
                      { j \in 1..Len(output_dir) :
                          j = Len(output_dir) \/ output_dir[j + 1] = "/" } }]
    ELSE [ok |-> FALSE, dirs |-> ds]

Put(fs, file_path, content) ==
    { f \in fs : f.path # file_path } \cup { [path |-> file_path, content |-> content] }

IOError(msg, file_path, cause) == Exc("IOError", msg, file_path, cause)

ValueError(extension) == Exc("ValueError", "Unsupported file extension", extension, NoExc)

(* write, lines 89-97: the writer looked up and run.  w: the writer         *)
(* succeeds ("ok"), fails before it touched the file ("error"), or fails    *)
(* having left part of the file ("partial").                                *)
local_write_dispatch(fs, ds, df, file_path, extension, w) ==
    IF extension \notin Writers
    THEN [files |-> fs, dirs |-> ds, path |-> file_path,
          out |-> Raise(ValueError(extension), <<>>)]
    ELSE IF w = "ok"
    THEN [files |-> Put(fs, file_path, Content(extension, df, TRUE)), dirs |-> ds,
          path |-> file_path, out |-> Return(None, <<"Data written to ">>)]
    ELSE [files |-> IF w = "partial"
                    THEN Put(fs, file_path, Content(extension, df, FALSE))
                    ELSE fs,
          dirs |-> ds, path |-> file_path,
          out |-> Raise(IOError("Error writing file to", file_path,
                                Exc("Exception", "writer", file_path, NoExc)), <<>>)]

(* write, lines 80-81, then the dispatch; made is what os.makedirs did: its *)
(* OSError is raised as it is, before the extension is looked at.           *)
local_write_in(fs, made, df, base_name, output_dir, extension, clock, w) ==
    IF ~made.ok
    THEN [files |-> fs, dirs |-> made.dirs, path |-> <<>>,
          out |-> Raise(Exc("OSError", "makedirs", output_dir, NoExc), <<>>)]
    ELSE local_write_dispatch(fs, made.dirs, df,
            _generate_file_name(base_name, extension, output_dir, clock), extension, w)

(* LocalDataHandler.write *)
local_write(fs, ds, df, base_name, output_dir, extension, clock, mk, w) ==
    local_write_in(fs, makedirs(ds, output_dir, mk), df, base_name, output_dir,
                   extension, clock, w)

(* str.split('.')[-1]: the tokens after the last ".", the whole string when *)
(* it has none.                                                             *)
RECURSIVE split_last(_)
split_last(file_path) ==
    IF file_path = <<>> THEN <<>>
    ELSE IF file_path[Len(file_path)] = "." THEN <<>>
    ELSE Append(split_last(SubSeq(file_path, 1, Len(file_path) - 1)),
                file_path[Len(file_path)])

(* A resolution that forgets the extension argument. *)
file_extension_fromPathOnly(file_path, extension) == split_last(file_path)

(* read, line 41: extension or file_path.split('.')[-1]; None and the empty *)
(* string are both falsy.                                                   *)
file_extension(file_path, extension) ==
    IF extension.given /\ extension.val # <<>> THEN extension.val ELSE split_last(file_path)

(* What the reader of format fmt makes of the file at file_path.  readable: *)
(* the file system and the parser let the read succeed; a missing file      *)
(* never reads.                                                             *)
reader_func(fs, file_path, fmt, readable) ==
    IF readable /\ \E f \in fs : f.path = file_path
    THEN [ok |-> TRUE, content |-> (CHOOSE f \in fs : f.path = file_path).content]
    ELSE [ok |-> FALSE, content |-> Content(fmt, NoFrame, FALSE)]

(* read, lines 44-48, with a reader found; rd is what it did.  A file of    *)
(* another format, or a cut one, that the parser still accepts gives a      *)
(* frame that is not the one written.                                       *)
local_read_with(file_path, fmt, rd) ==
    IF rd.ok
    THEN [reader |-> fmt,
          out |-> Return(IF rd.content.fmt = fmt /\ rd.content.complete
                         THEN rd.content.data
                         ELSE DataFrame(<<"?">>, <<"object">>, <<>>), <<>>)]
    ELSE [reader |-> fmt,
          out |-> Raise(IOError("Error reading file at", file_path,
                                Exc("Exception", "reader", file_path, NoExc)), <<>>)]

(* read, lines 41-50, with the resolved extension *)
local_read_as(fs, file_path, fmt, readable) ==
    IF fmt \in Readers
    THEN local_read_with(file_path, fmt, reader_func(fs, file_path, fmt, readable))
    ELSE [reader |-> <<>>, out |-> Raise(ValueError(fmt), <<>>)]

(* LocalDataHandler.read *)
local_read(fs, file_path, extension, readable) ==
    local_read_as(fs, file_path, file_extension(file_path, extension), readable)

----------------------------------------------------------------------------
(* The caller of LocalDataHandler. *)

NoExt == [given |-> FALSE, val |-> <<>>]

Ext(e) == [given |-> TRUE, val |-> e]

LCall(op, base_name, output_dir, extension, file_path, at, reader, out) ==
    [op |-> op, base |-> base_name, dir |-> output_dir, ext |-> extension,
     path |-> file_path, at |-> at, reader |-> reader, out |-> out]

NoLCall == LCall("none", <<>>, <<>>, NoExt, <<>>, 0, <<>>, Return(None, <<>>))

InitFS ==
    /\ files = {}
    /\ dirs = {}
    /\ now = 0
    /\ lastL = NoLCall

Init == InitDB /\ InitFS

(* The relational side: the caller's calls on the managers and the handler. *)
Next ==
    \/ \E m \in MgrIds : ManagerInit(m)
    \/ \E m \in MgrIds : Connect(m)
    \/ \E m \in MgrIds : Disconnect(m)
    \/ \E m \in MgrIds : ExecuteQuery(m)
    \/ HandlerInit
    \/ HandlerWrite
    \/ HandlerRead

Spec == Init /\ [][Next]_vars

LocalFrames ==
    { DataFrame(<<"id", "name">>, <<"int64", "object">>, << <<"1", "a">>, <<"2", "b">> >>),
      DataFrame(<<"id">>, <<"object">>, << <<"x">> >>) }

BaseNames == { <<"a">> }

OutputDirs == { <<"out", "/", "run">> }

WriteExtensions == { <<"json">>, <<"csv">>, <<"parquet">>, <<"xml">> }

Tick ==
    /\ now < MaxTime
    /\ now' = now + 1
    /\ UNCHANGED <<files, dirs, lastL>>
    /\ UNCHANGED dbVars

LocalWrite ==
    /\ \E df \in LocalFrames, b \in BaseNames, d \in OutputDirs, e \in WriteExtensions,
          mk \in BOOLEAN, w \in {"ok", "error", "partial"} :
       \E r \in {local_write(files, dirs, df, b, d, e, now, mk, w)} :
          /\ Cardinality({f.path : f \in r.files}) <= MaxFiles
          /\ files' = r.files
          /\ dirs' = r.dirs
          /\ lastL' = LCall("write", b, d, Ext(e), r.path, now, <<>>, r.out)
    /\ UNCHANGED now
    /\ UNCHANGED dbVars

NextWrite == Tick \/ LocalWrite

SpecWrite == Init /\ [][NextWrite]_vars

(* Reading: the files on disk come from earlier writes of this handler or   *)
(* from elsewhere.                                                          *)
ReadPaths ==
    { <<"a", ".", "csv">>, <<"a", ".", "json">>, <<"a", ".", "parquet">>,
      <<"a", ".", "xml">>, <<"a", ".", "json", ".", "csv">>, <<"a", ".", "csv", ".", "bak">>,
      <<"csv">>, <<"a">>, <<"a", ".">>, <<"out", ".", "d", "/", "a">>,
      _generate_file_name(<<"a">>, <<"csv">>, <<"out", "/", "run">>, 0) }

ReadExtensions ==
    { NoExt, Ext(<<>>), Ext(<<"csv">>), Ext(<<"json">>), Ext(<<"parquet">>), Ext(<<"xml">>) }

ReadFileSystems ==
    { {} }
    \cup { { [path |-> p, content |-> Content(<<"csv">>, df, c)] } :
             p \in { <<"a", ".", "csv">>, <<"csv">>, <<"a", ".", "xml">>,
                     _generate_file_name(<<"a">>, <<"csv">>, <<"out", "/", "run">>, 0) },
             df \in LocalFrames, c \in BOOLEAN }

InitRead ==
    /\ InitDB
    /\ files \in ReadFileSystems
    /\ dirs = {}
    /\ now = 0
    /\ lastL = NoLCall

LocalRead ==
    /\ \E p \in ReadPaths, e \in ReadExtensions, readable \in BOOLEAN :
       \E r \in {local_read(files, p, e, readable)} :
          lastL' = LCall("read", <<>>, <<>>, e, p, now, r.reader, r.out)
    /\ UNCHANGED <<files, dirs, now>>
    /\ UNCHANGED dbVars

NextRead == LocalRead

SpecRead == InitRead /\ [][NextRead]_vars

----------------------------------------------------------------------------
(* Claims about the relational handler and the connection manager.          *)

(* The manager's state as disconnect() itself tests it (`if self.engine`).  *)
Connected(obj) == obj.attrs /\ obj.engine # "None"

(* C1: every call of PostgresDataHandler.write calls                        *)
(* PostgreSQLDB.disconnect before it returns or raises, on every exit path. *)
C1_WriteAlwaysDisconnects ==
    last.op = "write" => last.disconnectCalled

(* C2: execute_query called while the manager is Disconnected (no engine)   *)
(* fails to the caller with a NotConnected error; it never returns an       *)
(* absent result.                                                           *)
C2_ExecuteQueryDisconnectedRaises ==
    (last.op = "execute_query" /\ last.engineBefore = "None")
        => /\ last.out.kind = "raise"
           /\ last.out.exc.type = "NotConnected"

(* C3: after write(data, t) on a database where t does not exist, the next  *)
(* read(t) returns exactly the rows of data, in order, with the column      *)
(* order preserved.                                                         *)
C3_WriteThenReadRoundTrip ==
    (/\ last.op = "read"
     /\ prev.op = "write"
     /\ prev.table = last.table
     /\ ~prev.existed)
        => /\ last.out.kind = "return"
           /\ last.out.value.kind = "DataFrame"
           /\ last.out.value.columns = prev.data.columns
           /\ last.out.value.rows = prev.data.rows

(* C4: write(data, t) to a table that does not exist creates it through the *)
(* CREATE TABLE IF NOT EXISTS statement, one column per data column typed   *)
(* by _get_postgres_type, and afterwards the table holds exactly the rows   *)
(* of data.                                                                 *)
C4_WriteCreatesTypedTable ==
    (last.op = "write" /\ ~last.before.exists)
        => /\ last.createRan
           /\ tables[last.table] = Table(columns_info(last.data), last.data.rows)

(* C5: write(data, t) to an existing table whose schema does not fit data   *)
(* raises the write failure (RuntimeError "Failed to write DataFrame ...")  *)
(* and leaves the table's schema and rows as they were.                     *)
C5_IncompatibleWriteFailsCleanly ==
    (/\ last.op = "write"
     /\ last.before.exists
     /\ ~SchemaFits(last.data, last.before))
        => /\ last.out.kind = "raise"
           /\ last.out.exc.type = "RuntimeError"
           /\ last.out.exc.msg = WriteMsg
           /\ tables[last.table] = last.before

(* C6: write tells its two failure causes apart: when the CREATE TABLE      *)
(* statement fails the caller sees the schema error ("Failed to create      *)
(* table") and no append is attempted; when creation succeeds and the       *)
(* append fails the caller sees the write failure; both name the table.     *)
C6_SchemaErrorVersusWriteFailure ==
    last.op = "write"
        => /\ ~last.createRan
              => /\ last.out.kind = "raise"
                 /\ last.out.exc.msg = "Failed to create table"
                 /\ last.out.exc.target = last.table
                 /\ ~last.appendAttempted
           /\ (last.createRan /\ last.out.kind = "raise")
              => /\ last.out.exc.msg = WriteMsg
                 /\ last.out.exc.target = last.table

(* C9: a disconnect() leaves the manager Disconnected, and a disconnect()   *)
(* of a Disconnected manager raises nothing and releases nothing.           *)
C9_DisconnectLeavesDisconnected ==
    last.op = "disconnect"
        => /\ ~Connected(mgr[last.m])
           /\ mgr[last.m].pooled = 0
           /\ last.out.kind = "return"
           /\ last.engineBefore = "None" => ~last.disposed

----------------------------------------------------------------------------
(* Claims about the local file handler.                                     *)

(* The formats the specification lists. *)
SpecFormats == { <<"json">>, <<"csv">>, <<"parquet">> }

UnsupportedWrite(c) == c.op = "write" /\ c.ext.val \notin SpecFormats

(* C7, as stated: a write with an extension other than json, csv, parquet   *)
(* always fails with the unsupported-format error (ValueError) and writes   *)
(* no file, fully or partially.                                             *)
C7_UnsupportedWriteAlwaysValueError ==
    [][ UnsupportedWrite(lastL')
          => /\ files' = files
             /\ lastL'.out.kind = "raise"
             /\ lastL'.out.exc.type = "ValueError" ]_vars

(* C7, amended: a write with an extension other than json, csv, parquet     *)
(* always fails and writes no file; it fails with the unsupported-format    *)
(* error when the output directory exists or could be created, and with the *)
(* error of the directory creation otherwise.                               *)
C7_UnsupportedWriteFailsWithoutFile ==
    [][ UnsupportedWrite(lastL')
          => /\ files' = files
             /\ lastL'.out.kind = "raise"
             /\ lastL'.out.exc.type \in {"ValueError", "OSError"}
             /\ lastL'.out.exc.type = "ValueError" <=> lastL'.dir \in dirs' ]_vars

C7_Witness ==
    /\ UnsupportedWrite(lastL)
    /\ lastL.out.exc.type = "ValueError"
    /\ lastL.dir \in dirs
    /\ files # {}

SuccessfulWrite(c) == c.op = "write" /\ c.out.kind = "return"

SameTarget(c1, c2) == c1.base = c2.base /\ c1.dir = c2.dir /\ c1.ext = c2.ext

FirstFileKept(c1, c2, before, after) ==
    /\ c2.path # c1.path
    /\ \E f \in before : f.path = c1.path
    /\ \A f \in before : f.path = c1.path => f \in after

(* C8, as stated: two successful writes with the same base name, output     *)
(* directory and extension made at different times go to different paths,   *)
(* and the first file is still there, unchanged, after the second.          *)
C8_WritesAtDifferentTimesDistinct ==
    [][ (/\ SuccessfulWrite(lastL) /\ SuccessfulWrite(lastL')
         /\ SameTarget(lastL, lastL')
         /\ lastL'.at # lastL.at)
          => FirstFileKept(lastL, lastL', files, files') ]_vars

(* C8, amended: two successful writes with the same base name, output       *)
(* directory and extension made in different clock seconds go to different  *)
(* paths, and the first file is still there, unchanged, after the second.   *)
C8_WritesInDifferentSecondsDistinct ==
    [][ (/\ SuccessfulWrite(lastL) /\ SuccessfulWrite(lastL')
         /\ SameTarget(lastL, lastL')
         /\ lastL'.at \div TicksPerSecond # lastL.at \div TicksPerSecond)
          => FirstFileKept(lastL, lastL', files, files') ]_vars

C8_Witness ==
    /\ SuccessfulWrite(lastL)
    /\ \E t \in 0..MaxTime :
          /\ t \div TicksPerSecond < lastL.at \div TicksPerSecond
          /\ \E f \in files, g \in files :
                /\ f.path = _generate_file_name(lastL.base, lastL.ext.val, lastL.dir, t)
                /\ g.path = lastL.path
                /\ f.content.complete /\ g.content.complete
                /\ f.content.data # g.content.data

(* s is the text of p after its last ".", or all of p when p has no ".".    *)
AfterLastDot(p, s) ==
    \E k \in 0..Len(p) :
        /\ s = SubSeq(p, k + 1, Len(p))
        /\ \A i \in 1..Len(s) : s[i] # "."
        /\ k = 0 \/ p[k] = "."

HasDot(p) == \E i \in 1..Len(p) : p[i] = "."

Tails(p) == { SubSeq(p, k + 1, Len(p)) : k \in 0..Len(p) }

(* C10, as stated: the format is the extension argument when one is given,  *)
(* otherwise the text after the last "." of the path; the read fails with   *)
(* the unsupported-format error exactly when that format is not json, csv   *)
(* or parquet.                                                              *)
C10_ReadResolvesGivenExtension ==
    lastL.op = "read"
        => \A s \in Tails(lastL.path) :
              AfterLastDot(lastL.path, s)
                => LET fmt == IF lastL.ext.given THEN lastL.ext.val
                              ELSE IF HasDot(lastL.path) THEN s ELSE <<>>
                   IN  fmt \notin SpecFormats
                          <=> (lastL.out.kind = "raise" /\ lastL.out.exc.type = "ValueError")

(* C10, amended: the format is the extension argument when it is given and  *)
(* not empty, otherwise the text after the last "." of the path (all of the *)
(* path when it has no "."); the read fails with the unsupported-format     *)
(* error exactly when that format is not json, csv or parquet, and then no  *)
(* reader ran; otherwise that format's reader ran, and its failure is       *)
(* raised as the I/O failure naming the path and carrying the cause.        *)
C10_ReadResolvesNonEmptyExtension ==
    lastL.op = "read"
        => \A s \in Tails(lastL.path) :
              AfterLastDot(lastL.path, s)
                => LET fmt == IF lastL.ext.given /\ lastL.ext.val # <<>>
                              THEN lastL.ext.val ELSE s
                   IN  /\ fmt \notin SpecFormats
                            <=> (lastL.out.kind = "raise" /\ lastL.out.exc.type = "ValueError")
                       /\ fmt \notin SpecFormats => lastL.reader = <<>>
                       /\ fmt \in SpecFormats => lastL.reader = fmt
                       /\ (fmt \in SpecFormats /\ lastL.out.kind = "raise")
                            => /\ lastL.out.exc.type = "IOError"
                               /\ lastL.out.exc.target = lastL.path
                               /\ lastL.out.exc.cause # NoExc

C10_Witness ==
    /\ lastL.op = "read"
    /\ ~lastL.ext.given
    /\ lastL.path = <<"a", ".", "json", ".", "csv">>
    /\ lastL.reader = <<"csv">>
    /\ lastL.out.kind = "raise"
    /\ lastL.out.exc.type = "IOError"

====
